---- MODULE Spec2Model ----
(***************************************************************************)
(* FormHelper (src/index.jsx): a React component that validates form       *)
(* fields through three RxJS pipelines (change, blur, submit).             *)
(*                                                                         *)
(* The model follows the component object: its React state (values,        *)
(* errors, isValidating, formErrors), its instance fields (fieldValidators,*)
(* mounted, the trigger closures) and the operator state of the pipelines  *)
(* that componentDidMount builds (pairwise's previous event, the throttle  *)
(* timer, the inner subscriptions of switchMap and mergeMap).              *)
(*                                                                         *)
(* A pipeline "commits" a tree by delivering it to its subscriber: the     *)
(* tree computed at index.jsx:111 (change) or :137-139 (blur).  The        *)
(* subscriber installed at index.jsx:168 only logs the tree, so the React  *)
(* state field errors is a separate variable that the log never feeds.     *)
(***************************************************************************)
EXTENDS Naturals, Sequences, FiniteSets

\* ---------------------------------------------------------------- bounds
\* Number of calls the environment makes on the component in one behaviour
\* (register, unregister, change, blur, submit, subscribe, unmount).
MaxCalls == 4

\* ------------------------------------------------------------ input sets
Paths == {"a", "b"}
FieldValues == {"10", "25"}
ValidatorFns == {"tooYoung", "thrower"}
FormValidators == {"default", "cross", "formThrower"}

\* The calls the environment makes.  Path a takes both values under the
\* validator that answers; path b takes the value that is in error, under
\* either validator.
Registrations ==
    {[name |-> "a", fn |-> "tooYoung"],
     [name |-> "b", fn |-> "tooYoung"],
     [name |-> "b", fn |-> "thrower"]}
FieldEvents ==
    {[name |-> "a", value |-> "10"],
     [name |-> "a", value |-> "25"],
     [name |-> "b", value |-> "10"]}

\* JavaScript values the validators produce or the pipelines store.
Undefined == "undefined"
EmptyObj == "{}"
Null == "null"
TooYoung == "too young"
FormError == "form error"
Boom == "boom"
FormBoom == "form boom"
TypeError == "TypeError"
NoName == "<null>"
Faults == {Boom, FormBoom, TypeError}

VARIABLES
    lifecycle,        \* "constructed" | "mounted" | "unmounted"
    mounted,          \* this.mounted
    validate,         \* this.props.validate
    initialValues,    \* this.props.initialValues
    expectedValues,   \* history: initialValues with the value of the latest
                      \*   change event of every path written over it
    fieldValidators,  \* this.fieldValidators: path -> {validator, active}
    values,           \* this.state.values
    errors,           \* this.state.errors
    isValidating,     \* this.state.isValidating
    formErrors,       \* this.state.formErrors
    thrown,           \* the methods out of which a TypeError escaped
    updateQueue,      \* setState calls of handleChange whose updater has not
                      \*   run yet: sequence of [id, name, value]
    callbackQueue,    \* setState calls whose updater ran and whose callback
                      \*   waits for the end of the commit
    flushing,         \* TRUE while the callbacks of one commit are being run
    queuedValidating, \* {isValidating: true} was handed to setState and React
                      \*   has not applied it yet
    prevName,         \* pairwise(): name of the previous change event
    throttled,        \* throttleTime(300): TRUE while its timer runs
    changeSub,        \* changeStreamSubscription: "none" | "open" | "closed"
    chInflight,       \* inner subscriptions of switchMap / mergeMap (change)
    changeOut,        \* trees delivered to the subscriber of index.jsx:168
    blurTrig,         \* this.triggerFieldBlur$: "undefined" | "live" | "stale"
    blurSub,          \* a subscriber on the blur pipeline: "none"|"open"|"closed"
    blurInflight,     \* inner subscriptions of mergeMap (blur)
    blurOut,          \* trees delivered by the blur pipeline
    submitTrig,       \* this.triggerSubmission$: "undefined" | "live" | "stale"
    submitSub,        \* a subscriber on the submit pipeline
    batch,            \* inner subscription of switchMap (submit): set of <= 1
    submitOut,        \* values delivered by the submit pipeline
    nextId,           \* number of the next call of the environment
    hist              \* history of the run, read by the properties only:
                      \*   blurred: change validations of a name that were in
                      \*     flight when a blur event of that name was raised
                      \*   submitted: blur validations that were in flight
                      \*     when a submit event was raised
                      \*   detached: numbers of the validations of a name that
                      \*     were in flight when the name was unregistered
                      \*   lostChange: a change event of a registered name was
                      \*     raised on the closed change pipeline
                      \*   blurIgnored: a blur event started no validation
                      \*   droppedLast: the latest change event that reached
                      \*     the pipeline was discarded by throttleTime
                      \*   blurCutOther: a blur event ended a change validation
                      \*     of another name
                      \*   last: the latest call on the registry, with the
                      \*     validator the name had before it

vars == <<lifecycle, mounted, validate, initialValues, expectedValues, fieldValidators, values, errors,
          isValidating, formErrors, thrown, updateQueue, callbackQueue, flushing,
          queuedValidating, prevName, throttled, changeSub,
          chInflight, changeOut, blurTrig, blurSub, blurInflight, blurOut,
          submitTrig, submitSub, batch, submitOut, nextId, hist>>

reactVars == <<values, errors, isValidating, formErrors>>
queueVars == <<updateQueue, callbackQueue, flushing, queuedValidating>>
changeVars == <<prevName, throttled, changeSub, chInflight, changeOut>>
blurVars == <<blurSub, blurInflight, blurOut>>
submitVars == <<submitSub, batch, submitOut>>

\* ------------------------------------------------------- external helpers
EmptyTree == [p \in {} |-> Null]

\* utils/setInternalValue: a new tree that differs from obj at name only.
setInternalValue(obj, name, value) ==
    [p \in (DOMAIN obj) \cup {name} |-> IF p = name THEN value ELSE obj[p]]

\* utils/retrieveInternalValue: the value at name, undefined when absent.
retrieveInternalValue(obj, name) ==
    IF name \in DOMAIN obj THEN obj[name] ELSE Undefined

\* utils/isEmptyObj
isEmptyObj(result) == result = EmptyObj

\* utils/checkValidValidatorFunc.call(this, name)
checkValidValidatorFunc(name) == name \in DOMAIN fieldValidators

\* utils/flatCombineFieldValidators(keys, errorsArray)
flatCombineFieldValidators(keys, errorsOf) == [k \in keys |-> errorsOf[k]]

\* lodash merge(object, source) on flat trees: every defined key of source
\* overwrites the key of object.
deepmerge(object, source) ==
    [p \in (DOMAIN object) \cup (DOMAIN source) |->
        IF p \in DOMAIN source THEN source[p] ELSE object[p]]

\* ------------------------------------------------- the caller's validators
\* A field validator applied to a value: its return value, or the message
\* of the error it throws.
CallValidator(fn, value) ==
    CASE fn = "tooYoung" -> IF value = "10" THEN TooYoung ELSE EmptyObj
      [] fn = "thrower"  -> Boom
      [] fn = "none"     -> TypeError

IsFault(result) == result \in Faults

\* A settled promise of a tree: resolved with tree, or rejected with msg.
Resolved(tree) == [fault |-> FALSE, msg |-> "", tree |-> tree]
Rejected(msg) == [fault |-> TRUE, msg |-> msg, tree |-> EmptyTree]

\* props.validate applied to the values tree: a mapping path -> error, or
\* the error it throws.  The default validate returns undefined, which
\* merges like an empty mapping.
CallValidate(fn, vals) ==
    CASE fn = "default"     -> Resolved(EmptyTree)
      [] fn = "cross"       ->
            Resolved([p \in {q \in Paths : retrieveInternalValue(vals, q) = "10"}
                        |-> FormError])
      [] fn = "formThrower" -> Rejected(FormBoom)

\* ------------------------------------------------------ validation runs
\* runFieldLevelValidation(name, value): what the promise settles with.
\* The validator is looked up and called when the promise is created.
runFieldLevelValidation(name, value) ==
    IF name \notin DOMAIN fieldValidators
    THEN TypeError
    ELSE LET result == CallValidator(fieldValidators[name].validator, value)
         IN  IF IsFault(result) THEN result
             ELSE IF isEmptyObj(result) THEN Null ELSE result

\* runFormLevelValidation()
runFormLevelValidation == CallValidate(validate, values)

\* runAllFielLevelValidations(): a fault of any validator rejects the batch.
runAllFielLevelValidations ==
    LET validatorKeys == DOMAIN fieldValidators
        errorsOf == [k \in validatorKeys |->
                        runFieldLevelValidation(k, retrieveInternalValue(values, k))]
    IN  IF \E k \in validatorKeys : IsFault(errorsOf[k])
        THEN Rejected(CHOOSE f \in Faults : \E k \in validatorKeys : errorsOf[k] = f)
        ELSE Resolved(flatCombineFieldValidators(validatorKeys, errorsOf))

\* -------------------------------------------------- share() ref counting
\* A trigger closure is assigned when the shared stream gets its first
\* subscriber and keeps pointing at a closed observer once the last one left.
TrigAfter(old, subscribers) ==
    IF subscribers > 0 THEN "live"
    ELSE IF old = "undefined" THEN "undefined" ELSE "stale"

BlurSubscribers(inflight, sub) ==
    Cardinality(inflight) + (IF sub = "open" THEN 1 ELSE 0)

SubmitSubscribers(inflight, sub) ==
    Cardinality(inflight) + (IF sub = "open" THEN 1 ELSE 0)

\* this.setState: React ignores it on a component that is not mounted.
CanSetState == lifecycle = "mounted"

\* React holds no setState that it has not finished: promise reactions and
\* timers run only between two tasks, never inside an update.
Idle == updateQueue = <<>> /\ callbackQueue = <<>> /\ ~queuedValidating

\* ------------------------------------------------------------------ Init
\* The props the component is constructed with: defaultProps, and two
\* callers that pass their own validate and initialValues.
Props ==
    {[validate |-> "default", initialValues |-> EmptyTree],
     [validate |-> "cross", initialValues |-> [p \in {"a"} |-> "10"]],
     [validate |-> "formThrower", initialValues |-> [p \in {"b"} |-> "25"]]}

NoHist == [blurred |-> {}, submitted |-> {}, detached |-> {},
           lostChange |-> FALSE, blurIgnored |-> FALSE, droppedLast |-> FALSE,
           blurCutOther |-> FALSE,
           last |-> [op |-> "none", name |-> NoName, fn |-> "none", prior |-> "none"]]

Init ==
    /\ lifecycle = "constructed"
    /\ mounted = FALSE
    /\ \E props \in Props : /\ validate = props.validate
                            /\ initialValues = props.initialValues
    /\ expectedValues = initialValues
    /\ fieldValidators = EmptyTree
    /\ values = [p \in {"free"} |-> ""]
    /\ errors = EmptyTree
    /\ isValidating = FALSE
    /\ formErrors = <<>>
    /\ thrown = {}
    /\ updateQueue = <<>>
    /\ callbackQueue = <<>>
    /\ flushing = FALSE
    /\ queuedValidating = FALSE
    /\ prevName = NoName
    /\ throttled = FALSE
    /\ changeSub = "none"
    /\ chInflight = {}
    /\ changeOut = <<>>
    /\ blurTrig = "undefined"
    /\ blurSub = "none"
    /\ blurInflight = {}
    /\ blurOut = <<>>
    /\ submitTrig = "undefined"
    /\ submitSub = "none"
    /\ batch = {}
    /\ submitOut = <<>>
    /\ nextId = 1
    /\ hist = NoHist

\* ------------------------------------------------------------- lifecycle
\* componentDidMount: only the change pipeline is subscribed; the blur and
\* submit pipelines are built and stored, nothing subscribes to them.
componentDidMount ==
    /\ lifecycle = "constructed"
    /\ lifecycle' = "mounted"
    /\ changeSub' = "open"
    /\ prevName' = NoName
    /\ UNCHANGED <<queueVars, mounted, validate, initialValues, expectedValues, fieldValidators, reactVars, thrown,
                   throttled, chInflight, changeOut, blurTrig, blurVars,
                   submitTrig, submitVars, nextId, hist>>

\* componentWillUnmount: this.validationSubscription was never assigned, so
\* the call of unsubscribe on it throws; no subscription is closed. React
\* unmounts no component in the middle of its own commit, and drops the
\* updates still queued for it.
componentWillUnmount ==
    /\ lifecycle = "mounted"
    /\ callbackQueue = <<>>
    /\ lifecycle' = "unmounted"
    /\ mounted' = FALSE
    /\ thrown' = thrown \cup {"componentWillUnmount"}
    /\ updateQueue' = <<>>
    /\ queuedValidating' = FALSE
    /\ UNCHANGED <<callbackQueue, flushing, validate, initialValues, expectedValues, fieldValidators, reactVars, changeVars, blurTrig,
                   blurVars, submitTrig, submitVars, nextId, hist>>

\* -------------------------------------------------------------- registry
\* The entry is stored only when the name has none yet.
withFieldValidatorKeepPrior(registry, name, validationFunc) ==
    IF name \in DOMAIN registry THEN registry
    ELSE [p \in (DOMAIN registry) \cup {name} |->
            IF p = name THEN [validator |-> validationFunc, active |-> FALSE]
            ELSE registry[p]]

\* this.fieldValidators[name] = { validator: validationFunc, active: false }
withFieldValidator(registry, name, validationFunc) ==
    [p \in (DOMAIN registry) \cup {name} |->
        IF p = name THEN [validator |-> validationFunc, active |-> FALSE]
        ELSE registry[p]]

\* delete this.fieldValidators[name]
withoutFieldValidator(registry, name) ==
    [p \in (DOMAIN registry) \ {name} |-> registry[p]]

\* The validator function stored at name, "none" when there is no entry.
ValidatorAt(registry, name) ==
    IF name \in DOMAIN registry THEN registry[name].validator ELSE "none"

attachFieldValidator(name, fn) ==
    /\ ~flushing
    /\ lifecycle \in {"constructed", "mounted"}
    /\ nextId <= MaxCalls
    /\ nextId' = nextId + 1
    /\ fieldValidators' = withFieldValidator(fieldValidators, name, fn)
    /\ hist' = [hist EXCEPT !.last = [op |-> "register", name |-> name, fn |-> fn,
                                      prior |-> ValidatorAt(fieldValidators, name)]]
    /\ UNCHANGED <<queueVars, lifecycle, mounted, validate, initialValues, expectedValues, reactVars, thrown, changeVars,
                   blurTrig, blurVars, submitTrig, submitVars>>

detachFieldValidator(name) ==
    /\ ~flushing
    /\ lifecycle \in {"constructed", "mounted"}
    /\ nextId <= MaxCalls
    /\ nextId' = nextId + 1
    /\ name \in DOMAIN fieldValidators
    /\ fieldValidators' = withoutFieldValidator(fieldValidators, name)
    /\ hist' = [hist EXCEPT
                  !.detached =
                     @ \cup {r.id : r \in {x \in chInflight \cup blurInflight : x.name = name}},
                  !.last = [op |-> "unregister", name |-> name, fn |-> "none",
                            prior |-> ValidatorAt(fieldValidators, name)]]
    /\ UNCHANGED <<queueVars, lifecycle, mounted, validate, initialValues, expectedValues, reactVars, thrown, changeVars,
                   blurTrig, blurVars, submitTrig, submitVars>>

\* ------------------------------------------------------- change pipeline
\* An inner subscription of the change pipeline: zip(promise, of(name)).
\* raw is what the validator itself returned, result what the promise of
\* runFieldLevelValidation settles with.
ChangeCall(id, name, value, branch) ==
    [id |-> id, name |-> name, value |-> value, branch |-> branch,
     raw |-> CallValidator(ValidatorAt(fieldValidators, name), value),
     result |-> runFieldLevelValidation(name, value)]

\* switchMap (same-name branch): the previous inner subscription of this
\* branch is unsubscribed, the new one takes its place.
switchMapInner(inflight, call) ==
    {r \in inflight : r.branch # "switch"} \cup {call}

\* mergeMap (name-change branch): the new inner subscription is added, the
\* ones already running are kept.
mergeMapInner(inflight, call) == inflight \cup {call}

\* takeUntil(onBlur$) left out of the mergeMap branch: only the inner
\* subscription of switchMap ends on a blur event.
takeUntilBlurSwitchOnly(inflight, name) == {r \in inflight : r.branch = "merge"}

\* takeUntil(onBlur$): a blur event completes every inner subscription of
\* both branches, whatever its name.
takeUntilBlur(inflight, name) == {}

\* this.triggerFieldChange$(name, value) from a pipeline that is closed: the
\* observer is stopped and the event goes nowhere.
ChangeLost ==
    /\ changeSub # "open"
    /\ hist' = [hist EXCEPT !.lostChange = TRUE]
    /\ UNCHANGED <<changeVars, blurTrig>>

\* filter(prev.name === current.name), throttleTime(300), switchMap.
ChangeSameName(id, name, value) ==
    /\ changeSub = "open"
    /\ prevName = name
    /\ prevName' = name
    /\ IF throttled
       THEN /\ hist' = [hist EXCEPT !.droppedLast = TRUE]
            /\ UNCHANGED <<throttled, chInflight, blurTrig>>
       ELSE /\ throttled' = TRUE
            /\ chInflight' = switchMapInner(chInflight, ChangeCall(id, name, value, "switch"))
            /\ blurTrig' = TrigAfter(blurTrig, BlurSubscribers(chInflight', blurSub))
            /\ hist' = [hist EXCEPT !.droppedLast = FALSE]
    /\ UNCHANGED <<changeSub, changeOut>>

\* filter(prev.name !== current.name), mergeMap.
ChangeOtherName(id, name, value) ==
    /\ changeSub = "open"
    /\ prevName # name
    /\ prevName' = name
    /\ chInflight' = mergeMapInner(chInflight, ChangeCall(id, name, value, "merge"))
    /\ blurTrig' = TrigAfter(blurTrig, BlurSubscribers(chInflight', blurSub))
    /\ hist' = [hist EXCEPT !.droppedLast = FALSE]
    /\ UNCHANGED <<throttled, changeSub, changeOut>>

\* handleChange (index.jsx:249-263) only hands React an updater and a
\* callback and returns: the call is queued.
handleChange(name, value) ==
    /\ lifecycle = "mounted"
    /\ ~flushing
    /\ nextId <= MaxCalls
    /\ nextId' = nextId + 1
    /\ updateQueue' = Append(updateQueue, [id |-> nextId, name |-> name, value |-> value])
    /\ UNCHANGED <<lifecycle, mounted, validate, initialValues, expectedValues,
                   fieldValidators, reactVars, thrown, callbackQueue, flushing,
                   queuedValidating, changeVars, blurTrig, blurVars, submitTrig,
                   submitVars, hist>>

\* The updaters of the queued calls, run in the order of the calls.
RECURSIVE applyUpdaters(_, _)
applyUpdaters(tree, queue) ==
    IF queue = <<>> THEN tree
    ELSE applyUpdaters(setInternalValue(tree, Head(queue).name, Head(queue).value),
                       Tail(queue))

\* What the latest change event of every path makes of a tree of values.
RECURSIVE withChanges(_, _)
withChanges(tree, queue) ==
    IF queue = <<>> THEN tree
    ELSE withChanges([p \in (DOMAIN tree) \cup {Head(queue).name} |->
                         IF p = Head(queue).name THEN Head(queue).value ELSE tree[p]],
                     Tail(queue))

\* The render of the update: React applies every queued setState, the
\* updaters of index.jsx:253-256 and the {isValidating: true} of :151, once
\* no commit is in progress. The callbacks wait for the commit; until they
\* run the lifecycle methods of the children run, which hold the handlers of
\* the component.
setStateUpdater ==
    /\ updateQueue # <<>> \/ queuedValidating
    /\ callbackQueue = <<>>
    /\ values' = applyUpdaters(values, updateQueue)
    /\ isValidating' = IF queuedValidating THEN TRUE ELSE isValidating
    /\ queuedValidating' = FALSE
    /\ expectedValues' = withChanges(expectedValues, updateQueue)
    /\ callbackQueue' = updateQueue
    /\ updateQueue' = <<>>
    /\ UNCHANGED <<lifecycle, mounted, validate, initialValues, fieldValidators,
                   errors, formErrors, thrown, flushing, changeVars,
                   blurTrig, blurVars, submitTrig, submitVars, nextId, hist>>

\* The callback of index.jsx:257-261, at the end of the commit: the change
\* event is raised only for a name that has a validator by then. The
\* callbacks of one commit run one after the other, nothing in between.
setStateCallback ==
    /\ callbackQueue # <<>>
    /\ callbackQueue' = Tail(callbackQueue)
    /\ flushing' = (Tail(callbackQueue) # <<>>)
    /\ LET u == Head(callbackQueue)
       IN  IF checkValidValidatorFunc(u.name)
           THEN \/ ChangeLost
                \/ ChangeSameName(u.id, u.name, u.value)
                \/ ChangeOtherName(u.id, u.name, u.value)
           ELSE UNCHANGED <<changeVars, blurTrig, hist>>
    /\ UNCHANGED <<lifecycle, mounted, validate, initialValues, expectedValues,
                   fieldValidators, reactVars, thrown, updateQueue, queuedValidating,
                   blurVars,
                   submitTrig, submitVars, nextId>>

\* The 300 ms timer of throttleTime runs out.
ThrottleExpire ==
    /\ Idle
    /\ changeSub = "open"
    /\ throttled
    /\ throttled' = FALSE
    /\ UNCHANGED <<queueVars, lifecycle, mounted, validate, initialValues, expectedValues, fieldValidators, reactVars,
                   thrown, prevName, changeSub, chInflight, changeOut, blurTrig,
                   blurVars, submitTrig, submitVars, nextId, hist>>

\* formErrors: [...this.state.formErrors, ...error]: the message is spread
\* too and adds more than one entry.
setFormLevelErrorSpread(list, error) == list \o <<error, error>>

\* setFormLevelError(error)
setFormLevelError(list, error) == Append(list, error)

\* The tree the map of index.jsx:111 hands to the subscriber.
ChangeCommit(r) ==
    [id |-> r.id, name |-> r.name, raw |-> r.raw,
     tree |-> setInternalValue(errors, r.name, r.result)]

\* The promise of a change validation resolves: its result goes through
\* zip and map to the subscriber, and the inner subscription completes.
ChangeResolve(r) ==
    /\ Idle
    /\ r \in chInflight
    /\ ~IsFault(r.result)
    /\ changeOut' = Append(changeOut, ChangeCommit(r))
    /\ chInflight' = chInflight \ {r}
    /\ blurTrig' = TrigAfter(blurTrig, BlurSubscribers(chInflight', blurSub))
    /\ UNCHANGED <<queueVars, lifecycle, mounted, validate, initialValues, expectedValues, fieldValidators, reactVars,
                   thrown, prevName, throttled, changeSub, blurVars, submitTrig,
                   submitVars, nextId, hist>>

\* The promise rejects: catchError records the message, hands the current
\* errors to the subscriber and completes, which ends the whole pipeline.
ChangeReject(r) ==
    /\ Idle
    /\ r \in chInflight
    /\ IsFault(r.result)
    /\ formErrors' = IF CanSetState THEN setFormLevelError(formErrors, r.result)
                     ELSE formErrors
    /\ changeOut' = Append(changeOut, [id |-> 0, name |-> NoName, raw |-> "",
                                       tree |-> errors])
    /\ changeSub' = "closed"
    /\ chInflight' = {}
    /\ throttled' = FALSE
    /\ blurTrig' = TrigAfter(blurTrig, BlurSubscribers(chInflight', blurSub))
    /\ UNCHANGED <<queueVars, lifecycle, mounted, validate, initialValues, expectedValues, fieldValidators, values, errors,
                   isValidating, thrown, prevName, blurVars, submitTrig,
                   submitVars, nextId, hist>>

\* --------------------------------------------------------- blur pipeline
\* An inner subscription of the blur pipeline:
\* zip(zip(field promise, of(name)), form promise).
BlurCall(name, value) ==
    [id |-> nextId, name |-> name, value |-> value,
     field |-> runFieldLevelValidation(name, value),
     form |-> runFormLevelValidation]

\* takeUntil(onSubmit$) left out: a submit event ends no blur validation.
takeUntilSubmitMissing(inflight) == inflight

\* takeUntil(onSubmit$): a submit event completes every inner subscription
\* of the blur pipeline.
takeUntilSubmit(inflight) == {}

\* Something outside the component subscribes to the observable that
\* componentDidMount stored in this.blurStreamSubscription.
SubscribeBlur ==
    /\ ~flushing
    /\ lifecycle = "mounted"
    /\ blurSub = "none"
    /\ nextId <= MaxCalls
    /\ nextId' = nextId + 1
    /\ blurSub' = "open"
    /\ blurTrig' = TrigAfter(blurTrig, BlurSubscribers(chInflight, blurSub'))
    /\ UNCHANGED <<queueVars, lifecycle, mounted, validate, initialValues, expectedValues, fieldValidators, reactVars,
                   thrown, changeVars, blurInflight, blurOut, submitTrig,
                   submitVars, hist>>

\* handleBlur while this.triggerFieldBlur$ was never assigned: the call
\* throws a TypeError.
BlurUndefined ==
    /\ blurTrig = "undefined"
    /\ thrown' = thrown \cup {"handleBlur"}
    /\ hist' = [hist EXCEPT !.blurIgnored = TRUE]
    /\ UNCHANGED <<chInflight, blurTrig, blurInflight, submitTrig>>

\* handleBlur while the observer behind this.triggerFieldBlur$ is stopped.
BlurStale ==
    /\ blurTrig = "stale"
    /\ hist' = [hist EXCEPT !.blurIgnored = TRUE]
    /\ UNCHANGED <<thrown, chInflight, blurTrig, blurInflight, submitTrig>>

\* handleBlur with a connected blur stream: the event ends the change
\* validations in flight and, when the blur pipeline has a subscriber,
\* starts the field validation and the form validation.
BlurLive(name, value) ==
    /\ blurTrig = "live"
    /\ chInflight' = takeUntilBlur(chInflight, name)
    /\ blurInflight' = IF blurSub = "open"
                       THEN blurInflight \cup {BlurCall(name, value)}
                       ELSE blurInflight
    /\ blurTrig' = TrigAfter(blurTrig, BlurSubscribers(chInflight', blurSub))
    /\ submitTrig' = TrigAfter(submitTrig, SubmitSubscribers(blurInflight', submitSub))
    /\ hist' = [hist EXCEPT
                  !.blurred = @ \cup {x \in chInflight : x.name = name},
                  !.blurIgnored = @ \/ blurSub # "open",
                  !.blurCutOther = @ \/ \E x \in chInflight \ chInflight' :
                                           x.name # name]
    /\ UNCHANGED thrown

handleBlur(name, value) ==
    /\ ~flushing
    /\ lifecycle = "mounted"
    /\ nextId <= MaxCalls
    /\ nextId' = nextId + 1
    /\ \/ BlurUndefined
       \/ BlurStale
       \/ BlurLive(name, value)
    /\ UNCHANGED <<queueVars, lifecycle, mounted, validate, initialValues, expectedValues, fieldValidators, reactVars,
                   prevName, throttled, changeSub, changeOut, blurSub, blurOut,
                   submitVars>>

\* The tree the map of index.jsx:137-139 hands to the subscriber.
BlurCommit(r) ==
    [id |-> r.id, name |-> r.name, field |-> r.field, form |-> r.form.tree,
     tree |-> deepmerge(setInternalValue(errors, r.name, r.field), r.form.tree)]

\* Both promises of a blur validation have resolved.
BlurResolve(r) ==
    /\ Idle
    /\ r \in blurInflight
    /\ ~IsFault(r.field) /\ ~r.form.fault
    /\ blurOut' = Append(blurOut, BlurCommit(r))
    /\ blurInflight' = blurInflight \ {r}
    /\ submitTrig' = TrigAfter(submitTrig, SubmitSubscribers(blurInflight', submitSub))
    /\ UNCHANGED <<queueVars, lifecycle, mounted, validate, initialValues, expectedValues, fieldValidators, reactVars,
                   thrown, changeVars, blurTrig, blurSub, submitVars, nextId, hist>>

\* One of the promises rejects: nothing catches the error, the blur
\* pipeline ends with it.
BlurReject(r) ==
    /\ Idle
    /\ r \in blurInflight
    /\ IsFault(r.field) \/ r.form.fault
    /\ blurSub' = "closed"
    /\ blurInflight' = {}
    /\ blurTrig' = TrigAfter(blurTrig, BlurSubscribers(chInflight, blurSub'))
    /\ submitTrig' = TrigAfter(submitTrig, SubmitSubscribers(blurInflight', submitSub))
    /\ UNCHANGED <<queueVars, lifecycle, mounted, validate, initialValues, expectedValues, fieldValidators, reactVars,
                   thrown, changeVars, blurOut, submitVars, nextId, hist>>

\* ------------------------------------------------------- submit pipeline
\* The inner subscription of the submit pipeline:
\* Promise.all([runAllFielLevelValidations(), runFormLevelValidation()]).
SubmitCall ==
    [id |-> nextId, keys |-> DOMAIN fieldValidators, vals |-> values,
     fields |-> runAllFielLevelValidations, form |-> runFormLevelValidation]

\* Something outside the component subscribes to the observable that
\* componentDidMount stored in this.submitStreamSubscription.
SubscribeSubmit ==
    /\ ~flushing
    /\ lifecycle = "mounted"
    /\ submitSub = "none"
    /\ nextId <= MaxCalls
    /\ nextId' = nextId + 1
    /\ submitSub' = "open"
    /\ submitTrig' = TrigAfter(submitTrig, SubmitSubscribers(blurInflight, submitSub'))
    /\ UNCHANGED <<queueVars, lifecycle, mounted, validate, initialValues, expectedValues, fieldValidators, reactVars,
                   thrown, changeVars, blurTrig, blurVars, batch, submitOut, hist>>

\* this.triggerSubmission$() while it was never assigned: a TypeError.
SubmitUndefined ==
    /\ submitTrig = "undefined"
    /\ thrown' = thrown \cup {"triggerSubmission$"}
    /\ UNCHANGED <<queuedValidating, blurInflight, submitTrig, batch, hist>>

\* this.triggerSubmission$() while its observer is stopped.
SubmitStale ==
    /\ submitTrig = "stale"
    /\ UNCHANGED <<thrown, queuedValidating, blurInflight, submitTrig, batch, hist>>

\* A submit event on a connected submit stream: the blur validations in
\* flight end; with a subscriber on the submit pipeline, tap hands
\* {isValidating: true} to setState, which React queues, and switchMap
\* replaces the batch in flight by a new one.
SubmitLive ==
    /\ submitTrig = "live"
    /\ blurInflight' = takeUntilSubmit(blurInflight)
    /\ IF submitSub = "open"
       THEN /\ queuedValidating' = (queuedValidating \/ CanSetState)
            /\ batch' = {SubmitCall}
       ELSE UNCHANGED <<queuedValidating, batch>>
    /\ submitTrig' = TrigAfter(submitTrig, SubmitSubscribers(blurInflight', submitSub))
    /\ hist' = [hist EXCEPT !.submitted = @ \cup blurInflight]
    /\ UNCHANGED thrown

triggerSubmission ==
    /\ ~flushing
    /\ lifecycle = "mounted"
    /\ nextId <= MaxCalls
    /\ nextId' = nextId + 1
    /\ \/ SubmitUndefined
       \/ SubmitStale
       \/ SubmitLive
    /\ UNCHANGED <<updateQueue, callbackQueue, flushing, lifecycle, mounted, validate,
                   initialValues, expectedValues, fieldValidators, reactVars,
                   changeVars, blurTrig, blurSub, blurOut, submitSub, submitOut>>

\* Promise.all resolves: tap clears isValidating and the pair of results
\* goes to the subscriber.
SubmitResolve(b) ==
    /\ Idle
    /\ b \in batch
    /\ ~b.fields.fault /\ ~b.form.fault
    /\ isValidating' = IF CanSetState THEN FALSE ELSE isValidating
    /\ submitOut' = Append(submitOut, [id |-> b.id, keys |-> b.keys, vals |-> b.vals,
                                       fields |-> b.fields.tree, form |-> b.form.tree])
    /\ batch' = {}
    /\ UNCHANGED <<queueVars, lifecycle, mounted, validate, initialValues, expectedValues, fieldValidators, values, errors,
                   formErrors, thrown, changeVars, blurTrig, blurVars, submitTrig,
                   submitSub, nextId, hist>>

\* Promise.all rejects: the error ends the submit pipeline before the
\* second tap runs.
SubmitReject(b) ==
    /\ Idle
    /\ b \in batch
    /\ b.fields.fault \/ b.form.fault
    /\ submitSub' = "closed"
    /\ batch' = {}
    /\ submitTrig' = TrigAfter(submitTrig, SubmitSubscribers(blurInflight, submitSub'))
    /\ UNCHANGED <<queueVars, lifecycle, mounted, validate, initialValues, expectedValues, fieldValidators, reactVars,
                   thrown, changeVars, blurTrig, blurVars, submitOut, nextId, hist>>

Next ==
    \/ componentDidMount
    \/ componentWillUnmount
    \/ \E reg \in Registrations : attachFieldValidator(reg.name, reg.fn)
    \/ \E name \in Paths : detachFieldValidator(name)
    \/ \E e \in FieldEvents : handleChange(e.name, e.value)
    \/ setStateUpdater
    \/ setStateCallback
    \/ ThrottleExpire
    \/ \E r \in chInflight : ChangeResolve(r)
    \/ \E r \in chInflight : ChangeReject(r)
    \/ SubscribeBlur
    \/ \E e \in FieldEvents : handleBlur(e.name, e.value)
    \/ \E r \in blurInflight : BlurResolve(r)
    \/ \E r \in blurInflight : BlurReject(r)
    \/ SubscribeSubmit
    \/ triggerSubmission
    \/ \E b \in batch : SubmitResolve(b)
    \/ \E b \in batch : SubmitReject(b)

Spec == Init /\ [][Next]_vars

\* Every promise of a submit batch settles: Promise.all of index.jsx:151-152
\* resolves or rejects once the validators have answered.
SubmitSettles == \E b \in batch : SubmitResolve(b) \/ SubmitReject(b)

FairSpec ==
    Spec /\ WF_vars(setStateUpdater) /\ WF_vars(setStateCallback)
         /\ WF_vars(SubmitSettles)

\* ------------------------------------------------------------ properties
Indices(log) == 1..Len(log)

\* C1: on one path the results are committed in the order of their events:
\* the result of an earlier change event never reaches the subscriber after
\* the result of a later change event of the same path.
C1_LatestWinsOnPath ==
    \A i, j \in Indices(changeOut) :
        (i < j /\ changeOut[i].name # NoName /\ changeOut[i].name = changeOut[j].name)
            => changeOut[i].id < changeOut[j].id

\* C2: a validator fault does not stop the change pipeline: no change event
\* of a registered name is ever raised on a pipeline that no longer runs
\* validators.
C2_FaultKeepsPipeline == ~hist.lostChange

\* C3: once the validations of change events on two distinct paths have both
\* completed, ErrorTree holds both results.
C3_BothPathsMerged ==
    \A i, j \in Indices(changeOut) :
        LET x == changeOut[i]
            y == changeOut[j]
        IN  (x.name # NoName /\ y.name # NoName /\ x.name # y.name /\ chInflight = {})
                => /\ x.name \in DOMAIN errors
                   /\ y.name \in DOMAIN errors

\* C4: the result of a change validation of path P that was in flight when a
\* blur event of P was raised is never committed.
C4_BlurSupersedesChange ==
    \A i \in Indices(changeOut) : \A r \in hist.blurred : changeOut[i].id # r.id

\* C4 witness: a blur event of P ended a change validation of P whose
\* validator had returned normally; the change pipeline is still subscribed
\* and nothing is left in flight.
C4_Witness ==
    /\ \E r \in hist.blurred : ~IsFault(r.result)
    /\ changeSub = "open"
    /\ chInflight = {}

\* C5: the result of a blur validation that was in flight when a submit
\* event was raised is never committed.
C5_SubmitSupersedesBlur ==
    \A i \in Indices(blurOut) : \A r \in hist.submitted : blurOut[i].id # r.id

\* C5 witness: a submit event ended a blur validation whose two validators
\* had returned normally, while the blur pipeline stays subscribed.
C5_Witness ==
    /\ \E r \in hist.submitted : ~IsFault(r.field) /\ ~r.form.fault
    /\ blurSub = "open"
    /\ blurInflight = {}

\* C6: while the component is mounted and React has applied every setState
\* handed to it, isValidating is true exactly while a submit batch is in
\* flight.
C6_ValidatingIffBatch ==
    (lifecycle = "mounted" /\ Idle) => (isValidating <=> batch # {})

\* C7: the step in which a submit batch resolves replaces ErrorTree by the
\* field results of the registered paths with the form result merged on top.
C7_SubmitReplacesErrorTree ==
    [][Len(submitOut') > Len(submitOut) =>
          LET b == submitOut'[Len(submitOut')]
          IN  errors' = deepmerge(b.fields, b.form)]_vars

\* C8: every blur event starts a validation that runs the field validator
\* of its path and the form validator.
C8_BlurRunsBothValidators == ~hist.blurIgnored

\* C9: the result of a validation of path P that was in flight when P was
\* unregistered is never committed.
C9_UnregisterDropsLateResult ==
    /\ \A i \in Indices(changeOut) : changeOut[i].id \notin hist.detached
    /\ \A i \in Indices(blurOut) : blurOut[i].id \notin hist.detached

\* C10: after teardown no error has escaped componentWillUnmount and no
\* pipeline subscription is open.
C10_TeardownUnsubscribes ==
    lifecycle = "unmounted" =>
        /\ "componentWillUnmount" \notin thrown
        /\ changeSub # "open"
        /\ blurSub # "open"
        /\ submitSub # "open"

\* C11: a step changes the registry at the path of the latest registry call
\* only; after register(P, f) the entry of P is {validator: f, active: false}
\* whatever it was before, and after unregister(P) there is no entry of P.
C11_RegistryContract ==
    [][/\ \A q \in Paths :
            (q \in DOMAIN fieldValidators') # (q \in DOMAIN fieldValidators)
               \/ (q \in DOMAIN fieldValidators /\ q \in DOMAIN fieldValidators'
                   /\ fieldValidators'[q] # fieldValidators[q])
            => (hist'.last.name = q /\ nextId' = nextId + 1)
       /\ hist'.last.op = "register" =>
            /\ hist'.last.name \in DOMAIN fieldValidators'
            /\ fieldValidators'[hist'.last.name]
                  = [validator |-> hist'.last.fn, active |-> FALSE]
       /\ hist'.last.op = "unregister" =>
            hist'.last.name \notin DOMAIN fieldValidators']_vars

\* C11 witness: register has replaced the entry of a path that held another
\* validator while the other path keeps its entry.
C11_Witness ==
    /\ hist.last.op = "register"
    /\ hist.last.prior \notin {"none", hist.last.fn}
    /\ \E q \in Paths \ {hist.last.name} : q \in DOMAIN fieldValidators

\* C12: FormValues is the caller's initial values with the value of the
\* latest change event of every path written over them; before the first
\* change event it is the initial values themselves.
C12_ValuesSeededAndFollowChanges == values = expectedValues

\* C13: every step leaves FormErrors as it is or adds one entry at its end.
C13_FormErrorsAppendOnly ==
    [][\/ formErrors' = formErrors
       \/ /\ Len(formErrors') = Len(formErrors) + 1
          /\ SubSeq(formErrors', 1, Len(formErrors)) = formErrors]_vars

\* C13 witness: a validator fault has been recorded in FormErrors.
C13_Witness ==
    /\ formErrors # <<>>
    /\ changeSub = "closed"

\* C14: once the 300 ms window has run out, the latest change event of the
\* burst is not one whose value was discarded without a validator call.
C14_DebounceRunsLatestValue ==
    (changeSub = "open" /\ ~throttled) => ~hist.droppedLast

\* C15: a commit of the change pipeline for path P keeps, at every other
\* path, the entry of the tree that the commit before it produced.
C15_CommitReplacesOnePath ==
    \A j \in Indices(changeOut) :
        (j > 1 /\ changeOut[j].name # NoName) =>
            \A q \in (DOMAIN changeOut[j - 1].tree) \ {changeOut[j].name} :
                /\ q \in DOMAIN changeOut[j].tree
                /\ changeOut[j].tree[q] = changeOut[j - 1].tree[q]

\* The commits of the change pipeline for path P, by their place in the log.
CommitsOf(P) == {i \in Indices(changeOut) : changeOut[i].name = P}

\* C16: an empty validator result is committed as null and any other result
\* unchanged; and when nothing is in flight, the leaf committed last for a
\* path is null exactly if the latest of its committed validation runs
\* returned an empty result.
C16_NullIffNoError ==
    /\ \A i \in Indices(changeOut) :
          changeOut[i].name # NoName =>
             LET leaf == changeOut[i].tree[changeOut[i].name]
             IN  IF changeOut[i].raw = EmptyObj THEN leaf = Null
                 ELSE leaf = changeOut[i].raw
    /\ chInflight = {} =>
          \A P \in Paths :
             CommitsOf(P) # {} =>
                LET lastCommit == CHOOSE i \in CommitsOf(P) :
                                     \A k \in CommitsOf(P) : k <= i
                    lastRun == CHOOSE i \in CommitsOf(P) :
                                  \A k \in CommitsOf(P) : changeOut[k].id <= changeOut[i].id
                IN  (changeOut[lastCommit].tree[P] = Null)
                       <=> (changeOut[lastRun].raw = EmptyObj)

\* C17: an event for a path that has no validator raises no fault: no
\* validation in flight is bound to reject with the TypeError of the missing
\* registry entry.
C17_MissingValidatorTolerated ==
    /\ \A r \in chInflight : r.result # TypeError
    /\ \A r \in blurInflight : r.field # TypeError
    /\ \A b \in batch : ~(b.fields.fault /\ b.fields.msg = TypeError)

\* C18: where a blur or submit validation yields a field error and a form
\* error for the same path, the committed value is the form validator's; a
\* field result at a path the form validator does not mention is kept.
C18_FormOverlaysField ==
    [][/\ \A i \in Indices(blurOut') :
             LET e == blurOut'[i]
             IN  IF e.name \in DOMAIN e.form
                 THEN e.tree[e.name] = e.form[e.name]
                 ELSE e.tree[e.name] = e.field
       /\ Len(submitOut') > Len(submitOut) =>
             LET b == submitOut'[Len(submitOut')]
             IN  \A p \in DOMAIN b.fields :
                    /\ (p \in DOMAIN b.form /\ b.fields[p] # Null) =>
                          (p \in DOMAIN errors' /\ errors'[p] = b.form[p])
                    /\ p \notin DOMAIN b.form =>
                          (p \in DOMAIN errors' /\ errors'[p] = b.fields[p])]_vars

\* C19: cancellation by blur is scoped to the blurred path: no blur event has
\* ended an in-flight change validation of a different path.
C19_BlurScopedToPath == ~hist.blurCutOther

\* C20: submit always finishes: while the component is mounted and every
\* batch settles, a raised isValidating flag eventually drops again.
C20_SubmitFinishes ==
    (lifecycle = "mounted" /\ isValidating)
        ~> (lifecycle # "mounted" \/ ~isValidating)

====
